---- MODULE Spec2Model ----
(***************************************************************************)
(* Model of the Financial Calculation Engine of OptiSpend Pro+             *)
(* (src/main.py, class FinancialCalculator) and of the session its screens *)
(* keep.  Every engine function is a static, stateless function; the state *)
(* machine below records the last call made (call) and what that call      *)
(* produced (result).                                                      *)
(*                                                                         *)
(* Python floats are modelled by exact rationals [num, den] in lowest      *)
(* terms, so that a product, a quotient or a percentage is computed as the *)
(* code computes it and an equation between two of them can fail.          *)
(***************************************************************************)
EXTENDS Integers, Sequences, FiniteSets, TLC

\* session_state is st.session_state, what the application keeps from one
\* rerun to the next: its spending_data and its optimized_budget.  runs
\* counts the clicks on "Run Optimization" of the session.
VARIABLES call, result, session_state, runs

vars == <<call, result, session_state, runs>>

----------------------------------------------------------------------------
(* Exact rational arithmetic standing for Python's float arithmetic.       *)

Abs(n) == IF n < 0 THEN -n ELSE n

Max(a, b) == IF a >= b THEN a ELSE b

Min(a, b) == IF a <= b THEN a ELSE b

RECURSIVE GCD(_, _)
GCD(a, b) == IF b = 0 THEN a ELSE GCD(b, a % b)

\* n/d in lowest terms with a positive denominator (d # 0).
Rat(n, d) ==
    LET g == GCD(Abs(n), Abs(d))
        s == IF d < 0 THEN -1 ELSE 1
    IN  [num |-> s * (n \div g), den |-> s * (d \div g)]

R(n) == [num |-> n, den |-> 1]

RatMul(a, b) ==
    LET g1 == GCD(Abs(a.num), b.den)
        g2 == GCD(Abs(b.num), a.den)
    IN  Rat((a.num \div g1) * (b.num \div g2), (a.den \div g2) * (b.den \div g1))

\* a / b for b # 0 (the callers guard b = 0 exactly where the code does).
RatDiv(a, b) == RatMul(a, Rat(b.den, b.num))

RatAdd(a, b) ==
    LET g == GCD(a.den, b.den)
        l == (a.den \div g) * b.den
    IN  Rat(a.num * (l \div a.den) + b.num * (l \div b.den), l)

RECURSIVE RatSum(_)
RatSum(s) == IF s = <<>> THEN R(0) ELSE RatAdd(Head(s), RatSum(Tail(s)))

RECURSIVE IntSum(_)
IntSum(s) == IF s = <<>> THEN 0 ELSE Head(s) + IntSum(Tail(s))

----------------------------------------------------------------------------
(* calculate_income_tax                                                    *)

\* float('inf'): a limit above every income of the model.
Inf == 2147483647

NewRegimeSlabs ==
    << <<250000,  Rat(0, 100)>>,
       <<500000,  Rat(5, 100)>>,
       <<750000,  Rat(10, 100)>>,
       <<1000000, Rat(15, 100)>>,
       <<1250000, Rat(20, 100)>>,
       <<1500000, Rat(25, 100)>>,
       <<Inf,     Rat(30, 100)>> >>

OldRegimeSlabs ==
    << <<250000,  Rat(0, 100)>>,
       <<500000,  Rat(5, 100)>>,
       <<1000000, Rat(20, 100)>>,
       <<Inf,     Rat(30, 100)>> >>

SlabsOf(regime) == IF regime = "new" THEN NewRegimeSlabs ELSE OldRegimeSlabs

\* if taxable_income > prev_limit
SlabReachedInclusive(taxable_income, prev_limit) == taxable_income >= prev_limit

SlabReached(taxable_income, prev_limit) == taxable_income > prev_limit

\* taxable = min(taxable_income, limit) - prev_limit
SlabTaxableWholeBand(taxable_income, limit, prev_limit) ==
    Min(taxable_income, limit)

SlabTaxable(taxable_income, limit, prev_limit) ==
    Min(taxable_income, limit) - prev_limit

\* The loop over the slabs: st = [tax, prev_limit, slab_details] is the
\* loop's state before slab number i; prev_limit moves only inside the if.
RECURSIVE SlabLoop(_, _, _, _)
SlabLoop(slabs, i, taxable_income, st) ==
    IF i > Len(slabs) THEN st
    ELSE LET limit == slabs[i][1]
             rate  == slabs[i][2]
         IN  IF SlabReached(taxable_income, st.prev_limit)
             THEN LET taxable  == SlabTaxable(taxable_income, limit, st.prev_limit)
                      slab_tax == RatMul(R(taxable), rate)
                  IN  SlabLoop(slabs, i + 1, taxable_income,
                        [tax          |-> RatAdd(st.tax, slab_tax),
                         prev_limit   |-> limit,
                         slab_details |-> Append(st.slab_details,
                            [from   |-> st.prev_limit,
                             to     |-> limit,
                             rate   |-> RatMul(rate, R(100)),
                             amount |-> taxable,
                             tax    |-> slab_tax])])
             ELSE SlabLoop(slabs, i + 1, taxable_income, st)

\* cess = tax * 0.04
CessTenfold(tax) == RatMul(tax, Rat(4, 10))

Cess(tax) == RatMul(tax, Rat(4, 100))

\* (total_tax / income) * 100 if income > 0 else 0
EffectiveRate(total_tax, income) ==
    IF income > 0 THEN RatMul(RatDiv(total_tax, R(income)), R(100)) ELSE R(0)

\* The body of calculate_income_tax after taxable_income and slabs are set.
TaxResultFromFirstLimit(income, taxable_income, slabs) ==
    LET st == SlabLoop(slabs, 1, taxable_income,
                       [tax |-> R(0), prev_limit |-> 250000, slab_details |-> <<>>])
        cess == Cess(st.tax)
        total_tax == RatAdd(st.tax, cess)
    IN  [kind           |-> "returned",
         total_tax      |-> total_tax,
         base_tax       |-> st.tax,
         cess           |-> cess,
         effective_rate |-> EffectiveRate(total_tax, income),
         slabs          |-> st.slab_details,
         taxable_income |-> taxable_income]

TaxResult(income, taxable_income, slabs) ==
    LET st == SlabLoop(slabs, 1, taxable_income,
                       [tax |-> R(0), prev_limit |-> 0, slab_details |-> <<>>])
        cess == Cess(st.tax)
        total_tax == RatAdd(st.tax, cess)
    IN  [kind           |-> "returned",
         total_tax      |-> total_tax,
         base_tax       |-> st.tax,
         cess           |-> cess,
         effective_rate |-> EffectiveRate(total_tax, income),
         slabs          |-> st.slab_details,
         taxable_income |-> taxable_income]

calculate_income_tax_on_taxable(income, regime, deductions) ==
    TaxResult(Max(income - deductions, 0), Max(income - deductions, 0), SlabsOf(regime))

calculate_income_tax(income, regime, deductions) ==
    TaxResult(income, Max(income - deductions, 0), SlabsOf(regime))

----------------------------------------------------------------------------
(* calculate_gst                                                           *)

GstCategories == {"Essential", "Standard", "Luxury", "Special"}

\* rates = {'Essential': 0.05, 'Standard': 0.12, 'Luxury': 0.18, 'Special': 0.28}
rates ==
    [c \in GstCategories |->
        CASE c = "Essential" -> Rat(5, 100)
          [] c = "Standard"  -> Rat(12, 100)
          [] c = "Luxury"    -> Rat(18, 100)
          [] c = "Special"   -> Rat(28, 100)]

\* rates.get(category, 0.12)
GstRateDefaultLuxury(category) ==
    IF category \in DOMAIN rates THEN rates[category] ELSE Rat(18, 100)

GstRate(category) ==
    IF category \in DOMAIN rates THEN rates[category] ELSE Rat(12, 100)

\* 'total': amount + gst_amount
GstTotalRateAdded(amount, rate, gst_amount) == RatAdd(R(amount), rate)

GstTotal(amount, rate, gst_amount) == RatAdd(R(amount), gst_amount)

calculate_gst(amount, category) ==
    LET rate       == GstRate(category)
        gst_amount == RatMul(R(amount), rate)
    IN  [kind       |-> "returned",
         base_price |-> amount,
         gst_rate   |-> RatMul(rate, R(100)),
         gst_amount |-> gst_amount,
         total      |-> GstTotal(amount, rate, gst_amount),
         category   |-> category]

----------------------------------------------------------------------------
(* optimize_budget                                                         *)
(*                                                                         *)
(* A category name is the sequence of its characters, so that str.lower() *)
(* and the solver library's renaming of a variable act on it character by  *)
(* character.  risk_appetite is counted in tenths (5 is 0.5).  Amounts the *)
(* solver handles are counted in tenths of a rupee: for whole-rupee inputs *)
(* every bound and right-hand side the code builds (0.7, 0.9, 1.1, 1.3     *)
(* times an amount, 0.4 times income) is a whole number of tenths, and the *)
(* vertices of the resulting polytope (bounds plus rows of a single sum)   *)
(* are whole numbers of tenths too.                                        *)

Rent      == <<"R", "e", "n", "t">>
Utilities == <<"u", "t", "i", "l", "i", "t", "i", "e", "s">>
Food      == <<"F", "o", "o", "d">>
EatingOut == <<"E", "a", "t", "i", "n", "g", " ", "O", "u", "t">>
Transport == <<"T", "r", "a", "n", "s", "p", "o", "r", "t">>
Entertainment == <<"E", "n", "t", "e", "r", "t", "a", "i", "n", "m", "e", "n", "t">>
Shopping  == <<"S", "h", "o", "p", "p", "i", "n", "g">>
Gifts     == <<"G", "i", "f", "t", "s">>

UpperCase == <<"A", "B", "C", "D", "E", "F", "G", "H", "I", "J", "K", "L", "M",
               "N", "O", "P", "Q", "R", "S", "T", "U", "V", "W", "X", "Y", "Z">>
LowerCase == <<"a", "b", "c", "d", "e", "f", "g", "h", "i", "j", "k", "l", "m",
               "n", "o", "p", "q", "r", "s", "t", "u", "v", "w", "x", "y", "z">>

\* str.lower()
Lower(name) ==
    [i \in DOMAIN name |->
        IF \E k \in DOMAIN UpperCase : UpperCase[k] = name[i]
        THEN LowerCase[CHOOSE k \in DOMAIN UpperCase : UpperCase[k] = name[i]]
        ELSE name[i]]

\* LpVariable(cat, ...): the library stores the name with each of the
\* characters "-+[] ->/" replaced by "_"; var.name reads the stored name.
IllegalChars == {"-", "+", "[", "]", " ", ">", "/"}

VarName(cat) ==
    [i \in DOMAIN cat |-> IF cat[i] \in IllegalChars THEN "_" ELSE cat[i]]

\* cat.lower() in ['rent', 'utilities']
EssentialName(cat) ==
    Lower(cat) \in { <<"r", "e", "n", "t">>,
                     <<"u", "t", "i", "l", "i", "t", "i", "e", "s">> }

\* lowBound=data['amount'] * (0.7 if risk_appetite > 0.5 else 0.9), in tenths
lowBound(data, risk_appetite) ==
    data.amount * (IF risk_appetite > 5 THEN 7 ELSE 9)

\* upBound=data['amount'] * (1.3 if risk_appetite > 0.5 else 1.1), in tenths
upBound(data, risk_appetite) ==
    data.amount * (IF risk_appetite > 5 THEN 13 ELSE 11)

RECURSIVE SumOver(_, _)
SumOver(f, S) ==
    IF S = {} THEN 0
    ELSE LET c == CHOOSE c \in S : TRUE IN f[c] + SumOver(f, S \ {c})

Total(x) == SumOver(x, DOMAIN x)

RECURSIVE ProductOfAmounts(_, _)
ProductOfAmounts(spending_data, S) ==
    IF S = {} THEN 1
    ELSE LET c == CHOOSE c \in S : TRUE
         IN  spending_data[c].amount * ProductOfAmounts(spending_data, S \ {c})

\* The assignments of a value between lo[c] and hi[c] to every category c.
RECURSIVE Box(_, _, _)
Box(cats, lo, hi) ==
    IF cats = {} THEN { <<>> }
    ELSE LET c == CHOOSE c \in cats : TRUE
         IN  { (c :> v) @@ x : v \in lo[c]..hi[c], x \in Box(cats \ {c}, lo, hi) }

\* prob += sum(vars.values()) <= income - min_savings
SavingsRow(x, income, min_savings) == Total(x) <= 10 * (income - min_savings)

\* prob += sum(vars.values()) >= income * 0.4
MinimumSpendingRow(x, income) == Total(x) >= 4 * income

\* prob += vars[cat] >= data['amount'] * 0.9 for the essential names
EssentialRowsByFlag(x, spending_data) ==
    \A cat \in DOMAIN spending_data :
        (EssentialName(cat) \/ spending_data[cat].essential)
            => x[cat] >= spending_data[cat].amount * 9

EssentialRows(x, spending_data) ==
    \A cat \in DOMAIN spending_data :
        EssentialName(cat) => x[cat] >= spending_data[cat].amount * 9

Feasible(x, income, spending_data, min_savings) ==
    /\ SavingsRow(x, income, min_savings)
    /\ MinimumSpendingRow(x, income)
    /\ EssentialRows(x, spending_data)

\* The objective's variable part, sum of (happiness / amount) * x * risk,
\* multiplied through by the product of all amounts (positive here) so that
\* two allocations compare in whole numbers; its constant part,
\* (min_savings / income) * (1 - risk_appetite) per category, ranks nothing.
Objective(x, spending_data, risk_appetite) ==
    SumOver([cat \in DOMAIN x |->
                spending_data[cat].happiness * risk_appetite * x[cat]
                * ProductOfAmounts(spending_data, DOMAIN x \ {cat})],
            DOMAIN x)

\* {var.name: var.varValue for var in vars.values()}: the names chosen as
\* inputs keep distinct variable names.
Returned(x) ==
    [kind  |-> "returned",
     value |-> [n \in {VarName(cat) : cat \in DOMAIN x} |->
                   x[CHOOSE cat \in DOMAIN x : VarName(cat) = n]]]

\* The allocations within the variables' bounds, and those of them that
\* satisfy every row of the program.
Bounded(spending_data, risk_appetite) ==
    Box(DOMAIN spending_data,
        [cat \in DOMAIN spending_data |-> lowBound(spending_data[cat], risk_appetite)],
        [cat \in DOMAIN spending_data |-> upBound(spending_data[cat], risk_appetite)])

\* The sum of the variables can reach neither row: all the upper bounds
\* together stay below 0.4 * income, or all the lower bounds together
\* exceed income - min_savings.
RowsOutOfReach(income, spending_data, min_savings, risk_appetite) ==
    LET cats == DOMAIN spending_data
    IN  \/ Total([cat \in cats |-> upBound(spending_data[cat], risk_appetite)])
              < 4 * income
        \/ Total([cat \in cats |-> lowBound(spending_data[cat], risk_appetite)])
              > 10 * (income - min_savings)

\* No point within the bounds satisfies the rows when they are out of reach,
\* so the points need not be listed then.
FeasibleSet(income, spending_data, min_savings, risk_appetite) ==
    IF RowsOutOfReach(income, spending_data, min_savings, risk_appetite)
    THEN {}
    ELSE {x \in Bounded(spending_data, risk_appetite) :
             Feasible(x, income, spending_data, min_savings)}

\* Building the objective divides by every amount and by income.
Raises(income, spending_data) ==
    income = 0 \/ \E cat \in DOMAIN spending_data : spending_data[cat].amount = 0

\* The values prob.solve() leaves in the variables of an infeasible
\* program.  The solver reports infeasibility in a status and specifies
\* nothing about the values, which come from its last iterate and need
\* satisfy neither the rows nor the variables' own bounds: every variable
\* takes, independently, a value below its bounds, at either bound or above
\* them.
RECURSIVE Unspecified(_, _, _)
Unspecified(cats, lo, hi) ==
    IF cats = {} THEN { <<>> }
    ELSE LET c == CHOOSE c \in cats : TRUE
         IN  { (c :> v) @@ x : v \in {0, lo[c], hi[c], hi[c] + 1},
                               x \in Unspecified(cats \ {c}, lo, hi) }

\* prob.solve(): an optimal vertex when the program is feasible (any optimal
\* point of the grid stands for it; ties are the solver's to break).
solve(income, spending_data, min_savings, risk_appetite) ==
    LET feas == FeasibleSet(income, spending_data, min_savings, risk_appetite)
    IN  IF feas # {}
        THEN {x \in feas : \A y \in feas :
                 Objective(y, spending_data, risk_appetite)
                    <= Objective(x, spending_data, risk_appetite)}
        ELSE Unspecified(DOMAIN spending_data,
                [cat \in DOMAIN spending_data |->
                    lowBound(spending_data[cat], risk_appetite)],
                [cat \in DOMAIN spending_data |->
                    upBound(spending_data[cat], risk_appetite)])

\* What a call of optimize_budget can produce: the error raised while the
\* objective is built, or the mapping built from whatever solve() left in
\* the variables; the solver's status is never read.
optimize_budget(income, spending_data, min_savings, risk_appetite) ==
    IF Raises(income, spending_data)
    THEN { [kind |-> "raised", error |-> "ZeroDivisionError"] }
    ELSE { Returned(x) :
             x \in solve(income, spending_data, min_savings, risk_appetite) }

----------------------------------------------------------------------------
(* calculate_investment_growth                                             *)
(*                                                                         *)
(* In SIP mode the running total is multiplied every month by              *)
(* m = (1 + rate) ** (1 / 12), which is irrational for the rates at hand.  *)
(* Such a total is kept exactly, as the twelve rational coefficients       *)
(* c[1..12] of c[1] + c[2] m + ... + c[12] m^11, with m^12 = 1 + rate.      *)

RatNeg(a) == [num |-> -a.num, den |-> a.den]

RatSub(a, b) == RatAdd(a, RatNeg(b))

RatLE(a, b) == RatSub(b, a).num >= 0

RatMin(a, b) == IF RatLE(a, b) THEN a ELSE b

RatMax(a, b) == IF RatLE(b, a) THEN a ELSE b

RECURSIVE RatPow(_, _)
RatPow(a, n) == IF n = 0 THEN R(1) ELSE RatMul(a, RatPow(a, n - 1))

\* range(1, 13), 1 / 12
MonthsPerYear == 12

SurdZero == [k \in 1..MonthsPerYear |-> R(0)]

SurdAdd(s, r) == [s EXCEPT ![1] = RatAdd(@, r)]

\* s * m, where m^12 = g
SurdTimesRoot(s, g) ==
    <<RatMul(s[MonthsPerYear], g)>> \o SubSeq(s, 1, MonthsPerYear - 1)

SurdScale(s, r) == [k \in 1..MonthsPerYear |-> RatMul(s[k], r)]

\* real = nominal / ((1 + inflation) ** year)
DeflatorOneYear(inflation, year) == RatAdd(R(1), inflation)

Deflator(inflation, year) == RatPow(RatAdd(R(1), inflation), year)

\* The lumpsum loop: st = [nominal, yearly_data] before the given year.
RECURSIVE LumpsumLoop(_, _, _, _, _, _)
LumpsumLoop(principal, years, rate, inflation, year, st) ==
    IF year > years THEN st
    ELSE LET nominal == RatMul(st.nominal, RatAdd(R(1), rate))
             real    == RatDiv(nominal, Deflator(inflation, year))
         IN  LumpsumLoop(principal, years, rate, inflation, year + 1,
                [nominal     |-> nominal,
                 yearly_data |-> Append(st.yearly_data,
                    [year    |-> year,
                     nominal |-> nominal,
                     real    |-> real,
                     growth  |-> RatMul(RatDiv(RatSub(nominal, R(principal)),
                                               R(principal)), R(100))])])

\* for month in range(1, 13): nominal += monthly_investment;
\*                            nominal *= (1 + rate) ** (1 / 12)
\* m = [month, nominal] on entry to the loop body for that month.
RECURSIVE SipMonths(_, _, _)
SipMonths(m, monthly_investment, rate) ==
    IF m.month > MonthsPerYear THEN m.nominal
    ELSE SipMonths([month   |-> m.month + 1,
                    nominal |-> SurdTimesRoot(
                                    SurdAdd(m.nominal, R(monthly_investment)),
                                    RatAdd(R(1), rate))],
                   monthly_investment, rate)

\* One pass of the outer loop's body over the running total.
SipYearFromZero(nominal, principal, rate) ==
    SipMonths([month |-> 1, nominal |-> SurdZero], principal, rate)

SipYear(nominal, principal, rate) ==
    SipMonths([month |-> 1, nominal |-> nominal], principal, rate)

\* The SIP loop: st = [nominal, yearly_data] before the given year.
RECURSIVE SipLoop(_, _, _, _, _, _)
SipLoop(principal, years, rate, inflation, year, st) ==
    IF year > years THEN st
    ELSE LET nominal == SipYear(st.nominal, principal, rate)
             real    == SurdScale(nominal, RatDiv(R(1), Deflator(inflation, year)))
         IN  SipLoop(principal, years, rate, inflation, year + 1,
                [nominal     |-> nominal,
                 yearly_data |-> Append(st.yearly_data,
                    [year    |-> year,
                     nominal |-> nominal,
                     real    |-> real,
                     growth  |-> SurdScale(
                                    SurdAdd(SurdScale(nominal,
                                               Rat(1, principal * MonthsPerYear * year)),
                                            R(-1)),
                                    R(100))])])

\* yearly_data[-1][field] if yearly_data else principal
FinalOrZero(yearly_data, field, principal) ==
    IF yearly_data # <<>> THEN yearly_data[Len(yearly_data)][field] ELSE R(0)

Final(yearly_data, field, principal) ==
    IF yearly_data # <<>> THEN yearly_data[Len(yearly_data)][field] ELSE R(principal)

\* ((final_nominal / principal) ** (1 / years) - 1) * 100 if years > 0 else 0:
\* the root is kept as written, [base, root] standing for
\* (base ** (1 / root) - 1) * 100.
Cagr(final_nominal, principal, years, mode) ==
    IF years > 0
    THEN [base |-> IF mode = "lumpsum"
                   THEN RatDiv(final_nominal, R(principal))
                   ELSE SurdScale(final_nominal, Rat(1, principal)),
          root |-> years]
    ELSE R(0)

\* Both modes divide by principal in every year's 'growth'.
calculate_investment_growth(principal, years, rate, mode, inflation) ==
    IF principal = 0 /\ years >= 1
    THEN [kind |-> "raised", error |-> "ZeroDivisionError"]
    ELSE LET st == IF mode = "lumpsum"
                   THEN LumpsumLoop(principal, years, rate, inflation, 1,
                           [nominal |-> R(principal), yearly_data |-> <<>>])
                   ELSE SipLoop(principal, years, rate, inflation, 1,
                           [nominal |-> SurdZero, yearly_data |-> <<>>])
             final_nominal == Final(st.yearly_data, "nominal", principal)
             final_real    == Final(st.yearly_data, "real", principal)
         IN  [kind    |-> "returned",
              nominal |-> final_nominal,
              real    |-> final_real,
              yearly  |-> st.yearly_data,
              cagr    |-> Cagr(final_nominal, principal, years, mode)]

----------------------------------------------------------------------------
(* calculate_insurance_needs                                               *)

\* additional_needed = max(total_needs - existing_cover, 0)
AdditionalNeededUnfloored(total_needs, existing_cover) ==
    RatSub(total_needs, R(existing_cover))

AdditionalNeeded(total_needs, existing_cover) ==
    RatMax(RatSub(total_needs, R(existing_cover)), R(0))

calculate_insurance_needs_until_sixty(age, income, dependents, liabilities, existing_cover) ==
    LET income_replacement == R(income * Max(60 - age, 0))
        liabilities_cover  == RatMul(R(liabilities), Rat(12, 10))
        education_cover    == R(500000 * dependents)
        total_needs        == RatAdd(RatAdd(income_replacement, liabilities_cover),
                                     education_cover)
    IN  [kind              |-> "returned",
         total_needs       |-> total_needs,
         existing_cover    |-> existing_cover,
         additional_needed |-> AdditionalNeeded(total_needs, existing_cover),
         components        |-> [income_replacement |-> income_replacement,
                                liabilities_cover  |-> liabilities_cover,
                                education_cover    |-> education_cover]]

calculate_insurance_needs(age, income, dependents, liabilities, existing_cover) ==
    LET income_replacement == R(income * 10)
        liabilities_cover  == RatMul(R(liabilities), Rat(12, 10))
        education_cover    == R(500000 * dependents)
        total_needs        == RatAdd(RatAdd(income_replacement, liabilities_cover),
                                     education_cover)
    IN  [kind              |-> "returned",
         total_needs       |-> total_needs,
         existing_cover    |-> existing_cover,
         additional_needed |-> AdditionalNeeded(total_needs, existing_cover),
         components        |-> [income_replacement |-> income_replacement,
                                liabilities_cover  |-> liabilities_cover,
                                education_cover    |-> education_cover]]

----------------------------------------------------------------------------
(* calculate_opportunity_cost                                              *)

\* total = amount * ((1 + alternative_return) ** year - 1)
OpportunityCostAccumulated(total, amount, alternative_return, year) ==
    RatAdd(total,
           RatMul(R(amount),
                  RatSub(RatPow(RatAdd(R(1), alternative_return), year), R(1))))

OpportunityCostOfYearReversed(total, amount, alternative_return, year) ==
    RatMul(R(amount),
           RatSub(R(1), RatPow(RatAdd(R(1), alternative_return), year)))

OpportunityCostOfYear(total, amount, alternative_return, year) ==
    RatMul(R(amount),
           RatSub(RatPow(RatAdd(R(1), alternative_return), year), R(1)))

\* The loop: st = [total, yearly_data] before the given year.
RECURSIVE OpportunityLoop(_, _, _, _, _)
OpportunityLoop(amount, years, alternative_return, year, st) ==
    IF year > years THEN st
    ELSE LET total == OpportunityCostOfYear(st.total, amount, alternative_return, year)
         IN  OpportunityLoop(amount, years, alternative_return, year + 1,
                [total       |-> total,
                 yearly_data |-> Append(st.yearly_data,
                    [year |-> year, opportunity_cost |-> total])])

calculate_opportunity_cost(amount, years, alternative_return) ==
    LET st == OpportunityLoop(amount, years, alternative_return, 1,
                              [total |-> R(0), yearly_data |-> <<>>])
    IN  [kind   |-> "returned",
         total  |-> st.total,
         yearly |-> st.yearly_data]

----------------------------------------------------------------------------
(* calculate_financial_health                                              *)

\* x / d if income > 0 else 0
GuardedRatio(x, d, income) == IF income > 0 THEN RatDiv(x, d) ELSE R(0)

\* savings_score = min(savings_ratio / 0.2, 1) * 25
SavingsScoreUncapped(savings_ratio) ==
    RatMul(RatDiv(savings_ratio, Rat(2, 10)), R(25))

SavingsScore(savings_ratio) ==
    RatMul(RatMin(RatDiv(savings_ratio, Rat(2, 10)), R(1)), R(25))

\* investment_score = min(investment_ratio / 2, 1) * 25
InvestmentScore(investment_ratio) ==
    RatMul(RatMin(RatDiv(investment_ratio, R(2)), R(1)), R(25))

\* debt_score = (1 - min(debt_ratio, 1)) * 20
DebtScoreUncapped(debt_ratio) ==
    RatMul(RatSub(R(1), debt_ratio), R(20))

DebtScore(debt_ratio) ==
    RatMul(RatSub(R(1), RatMin(debt_ratio, R(1))), R(20))

\* insurance_score = min(insurance_adequacy, 1) * 15
InsuranceScore(insurance_adequacy) ==
    RatMul(RatMin(insurance_adequacy, R(1)), R(15))

\* excess_expense = max(expense_ratio - 0.6, 0)
\* expense_score = (1 - min(excess_expense / 0.4, 1)) * 15
ExpenseScore(expense_ratio) ==
    LET excess_expense == RatMax(RatSub(expense_ratio, Rat(6, 10)), R(0))
    IN  RatMul(RatSub(R(1), RatMin(RatDiv(excess_expense, Rat(4, 10)), R(1))), R(15))

calculate_financial_health(income, expenses, savings, investments, liabilities, insurance_cover, age) ==
    LET savings_ratio      == GuardedRatio(R(savings), R(income), income)
        savings_score      == SavingsScore(savings_ratio)
        investment_ratio   == GuardedRatio(R(investments),
                                           R(income * Max(age - 25, 5)), income)
        investment_score   == InvestmentScore(investment_ratio)
        debt_ratio         == GuardedRatio(R(liabilities),
                                           RatMul(R(income), Rat(5, 10)), income)
        debt_score         == DebtScore(debt_ratio)
        insurance_adequacy == GuardedRatio(R(insurance_cover), R(income * 10), income)
        insurance_score    == InsuranceScore(insurance_adequacy)
        expense_ratio      == GuardedRatio(R(expenses), R(income), income)
        expense_score      == ExpenseScore(expense_ratio)
        total_score        == RatAdd(RatAdd(RatAdd(RatAdd(savings_score,
                                 investment_score), debt_score), insurance_score),
                                 expense_score)
    IN  [kind        |-> "returned",
         total_score |-> RatMin(RatMax(total_score, R(0)), R(100)),
         components  |->
            [savings     |-> [ratio |-> savings_ratio, score |-> savings_score,
                              ideal |-> Rat(2, 10)],
             investments |-> [ratio |-> investment_ratio, score |-> investment_score,
                              ideal |-> R(2)],
             debt        |-> [ratio |-> debt_ratio, score |-> debt_score,
                              ideal |-> R(1)],
             insurance   |-> [ratio |-> insurance_adequacy, score |-> insurance_score,
                              ideal |-> R(1)],
             expenses    |-> [ratio |-> expense_ratio, score |-> expense_score,
                              ideal |-> Rat(6, 10)]]]

----------------------------------------------------------------------------
(* generate_spending_forecast                                              *)
(*                                                                         *)
(* np.random.uniform(0.95, 1.15) can return any factor of its range, so a  *)
(* forecast value is kept as the range of what it can be: the value under  *)
(* the lowest draw and the value under the highest draw, every draw in     *)
(* between giving a value in between.                                      *)

\* variation = np.random.uniform(0.95, 1.15, len(categories))
Variation == [low |-> Rat(95, 100), high |-> Rat(115, 100)]

\* base * var
Varied(base) ==
    [low  |-> RatMul(R(base), Variation.low),
     high |-> RatMul(R(base), Variation.high)]

\* monthly_values[seasonal_idx] *= 1.5
SeasonalRise(value) ==
    [low  |-> RatMul(value.low, Rat(15, 10)),
     high |-> RatMul(value.high, Rat(15, 10))]

\* if month == 12
December == 12

\* The entry the seasonal effect applies to: categories.index('Shopping')
\* in the month == 12 branch.
SeasonalEveryMonth(month, category) == category = Shopping

Seasonal(month, category) == month = December /\ category = Shopping

\* datetime(2023, month, 1) accepts the months 1..12 and raises ValueError
\* for any other.
LastCalendarMonth == 12

MonthNames == <<"Jan", "Feb", "Mar", "Apr", "May", "Jun",
                "Jul", "Aug", "Sep", "Oct", "Nov", "Dec">>

\* datetime(2023, month, 1).strftime('%b %Y')
MonthLabel(month) == <<MonthNames[month], 2023>>

\* One dictionary of the list: 'Month' and one value per category.
ForecastRow(optimized_budget, month) ==
    [Month  |-> MonthLabel(month),
     values |-> [category \in DOMAIN optimized_budget |->
                    IF Seasonal(month, category)
                    THEN SeasonalRise(Varied(optimized_budget[category]))
                    ELSE Varied(optimized_budget[category])]]

\* for month in range(1, months + 1): forecast is the list before the
\* given month.
RECURSIVE ForecastLoop(_, _, _, _)
ForecastLoop(optimized_budget, months, month, forecast) ==
    IF month > months THEN [kind |-> "returned", rows |-> forecast]
    ELSE IF month > LastCalendarMonth
         THEN [kind |-> "raised", error |-> "ValueError"]
         ELSE ForecastLoop(optimized_budget, months, month + 1,
                           Append(forecast, ForecastRow(optimized_budget, month)))

generate_spending_forecast(optimized_budget, months) ==
    ForecastLoop(optimized_budget, months, 1, <<>>)

----------------------------------------------------------------------------
(* spending_input_form                                                     *)
(*                                                                         *)
(* One rerun of the form.  w holds what the widgets return in that rerun:  *)
(* for every row (a category of the map as the rerun finds it) its name,   *)
(* amount, happiness and essential fields and whether its delete button    *)
(* was clicked, then the "Add new category" text, the three inputs beside  *)
(* it and the "Add" button.                                                *)

\* st.session_state.spending_data[new_name] = st.session_state.spending_data.pop(cat)
Moved(data, cat, new_name) ==
    [c \in (DOMAIN data \ {cat}) \cup {new_name} |->
        IF c = new_name THEN data[cat] ELSE data[c]]

\* The loop over list(st.session_state.spending_data.keys()):
\* st = [spending_data, to_delete] before the rows still to come.
RECURSIVE RowLoop(_, _, _)
RowLoop(rows, w, st) ==
    IF rows = {} THEN st
    ELSE LET cat      == CHOOSE c \in rows : TRUE
             new_name == w.new_name[cat]
             moved    == IF new_name # cat
                         THEN Moved(st.spending_data, cat, new_name)
                         ELSE st.spending_data
             updated  == [moved EXCEPT ![new_name] =
                            [amount    |-> w.new_amount[cat],
                             happiness |-> w.new_happy[cat],
                             essential |-> w.essential[cat]]]
         IN  RowLoop(rows \ {cat}, w,
                [spending_data |-> updated,
                 to_delete     |-> IF w.del[cat]
                                   THEN st.to_delete \cup {cat}
                                   ELSE st.to_delete])

\* for cat in to_delete: del st.session_state.spending_data[cat]
\* del raises KeyError for a name that is not a key; one button at most is
\* clicked in a rerun, so to_delete holds one name at most.
Deleted(data, to_delete) ==
    IF to_delete \subseteq DOMAIN data
    THEN [kind          |-> "returned",
          spending_data |-> [c \in DOMAIN data \ to_delete |-> data[c]]]
    ELSE [kind          |-> "raised",
          error         |-> "KeyError",
          spending_data |-> data]

\* if new_cat and new_cat not in st.session_state.spending_data: ...
\*     if new_cols[4].button("Add"): st.session_state.spending_data[new_cat] = {...}
Added(data, w) ==
    IF w.new_cat # <<>> /\ w.new_cat \notin DOMAIN data /\ w.add
    THEN [c \in DOMAIN data \cup {w.new_cat} |->
            IF c = w.new_cat
            THEN [amount |-> w.new_amt, happiness |-> w.new_happy_of_new,
                  essential |-> w.new_ess]
            ELSE data[c]]
    ELSE data

\* The exception of a rerun ends it; what the rerun had already written to
\* the session stays written.
spending_input_form(data, w) ==
    LET st  == RowLoop(DOMAIN data, w, [spending_data |-> data, to_delete |-> {}])
        del == Deleted(st.spending_data, st.to_delete)
    IN  IF del.kind = "raised" THEN del
        ELSE [kind          |-> "returned",
              spending_data |-> Added(del.spending_data, w)]

----------------------------------------------------------------------------
(* Inputs of the model.                                                    *)

MaxIncomeSteps == 14
MaxDeductionSteps == 2
MaxGstAmount == 14
MaxCategories == 2
MaxAmount == 2
MaxIncome == 4
MaxMinSavings == 3

\* Gross incomes on and just above the slab limits, up to the top slab.
TaxIncomes == {k * 125000 + d : k \in 0..MaxIncomeSteps, d \in {0, 1}}

TaxDeductions == {k * 150000 : k \in 0..MaxDeductionSteps}

Regimes == {"new", "old"}

GstAmounts == 0..MaxGstAmount \cup {50000}

GstInputCategories == GstCategories \cup {"Other", "standard", ""}

CategoryNames == {Rent, Utilities, Food, EatingOut}

HappinessValues == {1, 10}

RiskAppetites == {0, 5, 6}

SpendingMaps ==
    UNION { [S -> [amount : 0..MaxAmount, happiness : HappinessValues]] :
            S \in {T \in SUBSET CategoryNames :
                      Cardinality(T) >= 1 /\ Cardinality(T) <= MaxCategories} }

\* Maps as the spending form hands them over, every category carrying its
\* 'essential' checkbox.
FlaggedSpendingMaps ==
    UNION { [S -> [amount : {1, 2}, happiness : HappinessValues, essential : BOOLEAN]] :
            S \in (SUBSET {Rent, Food}) \ {{}} }

\* init_session_state(): the session a user starts with.
DefaultIncome == 1200000

DefaultSpendingData ==
    (Rent          :> [amount |-> 15000, happiness |-> 6, essential |-> TRUE]) @@
    (Food          :> [amount |-> 8000,  happiness |-> 8, essential |-> TRUE]) @@
    (Transport     :> [amount |-> 3000,  happiness |-> 5, essential |-> TRUE]) @@
    (Entertainment :> [amount |-> 5000,  happiness |-> 7, essential |-> FALSE]) @@
    (Shopping      :> [amount |-> 4000,  happiness |-> 4, essential |-> FALSE])

DefaultMinSavings == 10000

DefaultRiskAppetite == 5

\* The widgets as a rerun shows them to a user who touches nothing: every
\* row's fields hold the map's values, no button is clicked, the text of
\* "Add new category" is empty and the inputs beside it hold their
\* defaults (3000, 5, unchecked).
Untouched(data) ==
    [new_name         |-> [cat \in DOMAIN data |-> cat],
     new_amount       |-> [cat \in DOMAIN data |-> data[cat].amount],
     new_happy        |-> [cat \in DOMAIN data |-> data[cat].happiness],
     essential        |-> [cat \in DOMAIN data |-> data[cat].essential],
     del              |-> [cat \in DOMAIN data |-> FALSE],
     new_cat          |-> <<>>,
     new_amt          |-> 3000,
     new_happy_of_new |-> 5,
     new_ess          |-> FALSE,
     add              |-> FALSE]

\* What a user does to the form in one rerun: at most one field of the
\* 'Shopping' row is edited (its name, to the unused name 'Gifts', or its
\* amount, to 0), and at most one button is clicked ('Shopping''s delete
\* button, or "Add" with 'Gifts' typed as the new category).
FormInputs(data) ==
    LET U       == Untouched(data)
        fields  == {U}
                   \cup (IF Shopping \in DOMAIN data /\ Gifts \notin DOMAIN data
                         THEN {[U EXCEPT !.new_name[Shopping] = Gifts]} ELSE {})
                   \cup (IF Shopping \in DOMAIN data
                         THEN {[U EXCEPT !.new_amount[Shopping] = 0]} ELSE {})
        Clicks(w) == {w}
                   \cup (IF Shopping \in DOMAIN data
                         THEN {[w EXCEPT !.del[Shopping] = TRUE]} ELSE {})
                   \cup {[w EXCEPT !.new_cat = Gifts, !.add = TRUE]}
    IN  UNION {Clicks(w) : w \in fields}

MaxRuns == 1
MaxPrincipal == 2
MaxYears == 3
MaxInsuranceSteps == 2
MaxDependents == 2
MaxOpportunityYears == 3
MaxHealthIncomeSteps == 1
MaxHealthSteps == 3

MaxMonths == 13

\* Optimized budgets of up to three categories, in tenths of a rupee, one
\* of them named 'Shopping' and one 'shopping'.
ForecastBudgets ==
    UNION { [S -> {0, 40}] : S \in (SUBSET {Shopping, Rent, Lower(Shopping)}) \ {{}} }

\* Small principals over every horizon, and the principals of the worked
\* examples (1000 a month, 100000 at once) over their one year.
GrowthPrincipalsAndYears ==
    (0..MaxPrincipal) \X (0..MaxYears) \cup {1000, 100000} \X {0, 1}

GrowthRates == {Rat(12, 100), Rat(30, 100)}

Inflations == {Rat(6, 100), R(0)}

Modes == {"lumpsum", "sip"}

InsuranceAges == {25, 40}

OpportunityAmounts == {0, 1000, 18000, 36000, 50000, 200000}

OpportunityRates == {Rat(12, 100), Rat(10, 100), Rat(20, 100), Rat(25, 100), Rat(30, 100)}

HealthAges == {20, 30, 40}

----------------------------------------------------------------------------
(* The state machine: the engine is idle, a caller calls one function with *)
(* its full set of arguments, the function produces its result, and the    *)
(* caller drops the result; no call of the engine leaves anything behind   *)
(* for the next.  The application around the engine keeps a session: the   *)
(* spending map the form edits and the last optimized budget.              *)

Idle == [op |-> "none"]

NoResult == [kind |-> "none"]

\* st.session_state.optimized_budget = None; None and the empty mapping
\* are both false to "if st.session_state.get('optimized_budget')".
None == <<>>

Init ==
    /\ call = Idle
    /\ result = NoResult
    /\ session_state = [spending_data    |-> DefaultSpendingData,
                        optimized_budget |-> None]
    /\ runs = 0

CallIncomeTax ==
    /\ call = Idle
    /\ \E income \in TaxIncomes, regime \in Regimes, deductions \in TaxDeductions :
        /\ call' = [op |-> "calculate_income_tax", income |-> income,
                    regime |-> regime, deductions |-> deductions]
        /\ result' = calculate_income_tax(income, regime, deductions)
    /\ UNCHANGED <<session_state, runs>>

CallGst ==
    /\ call = Idle
    /\ \E amount \in GstAmounts, category \in GstInputCategories :
        /\ call' = [op |-> "calculate_gst", amount |-> amount, category |-> category]
        /\ result' = calculate_gst(amount, category)
    /\ UNCHANGED <<session_state, runs>>

CallOptimizeBudget ==
    /\ call = Idle
    /\ \E income \in 0..MaxIncome, spending_data \in SpendingMaps,
          min_savings \in 0..MaxMinSavings, risk_appetite \in RiskAppetites :
        /\ call' = [op |-> "optimize_budget", income |-> income,
                    spending_data |-> spending_data, min_savings |-> min_savings,
                    risk_appetite |-> risk_appetite]
        /\ result' \in optimize_budget(income, spending_data, min_savings, risk_appetite)
    /\ UNCHANGED <<session_state, runs>>

CallOptimizeBudgetWithFlags ==
    /\ call = Idle
    /\ \E income \in {2, 3, 4}, spending_data \in FlaggedSpendingMaps,
          min_savings \in {0, 1}, risk_appetite \in {5, 6} :
        /\ call' = [op |-> "optimize_budget", income |-> income,
                    spending_data |-> spending_data, min_savings |-> min_savings,
                    risk_appetite |-> risk_appetite]
        /\ result' \in optimize_budget(income, spending_data, min_savings, risk_appetite)
    /\ UNCHANGED <<session_state, runs>>

\* "Run Optimization" pressed on the untouched default session.
CallOptimizeBudgetOnDefaults ==
    /\ call = Idle
    /\ call' = [op |-> "optimize_budget", income |-> DefaultIncome,
                spending_data |-> DefaultSpendingData,
                min_savings |-> DefaultMinSavings,
                risk_appetite |-> DefaultRiskAppetite]
    /\ result' \in optimize_budget(DefaultIncome, DefaultSpendingData,
                                   DefaultMinSavings, DefaultRiskAppetite)
    /\ UNCHANGED <<session_state, runs>>

CallInvestmentGrowth ==
    /\ call = Idle
    /\ \E py \in GrowthPrincipalsAndYears, rate \in GrowthRates, mode \in Modes,
          inflation \in Inflations :
        /\ call' = [op |-> "calculate_investment_growth", principal |-> py[1],
                    years |-> py[2], rate |-> rate, mode |-> mode,
                    inflation |-> inflation]
        /\ result' = calculate_investment_growth(py[1], py[2], rate, mode, inflation)
    /\ UNCHANGED <<session_state, runs>>

CallInsuranceNeeds ==
    /\ call = Idle
    /\ \E age \in InsuranceAges, i \in 0..MaxInsuranceSteps,
          dependents \in 0..MaxDependents, l \in 0..MaxInsuranceSteps,
          c \in 0..MaxInsuranceSteps :
        /\ call' = [op |-> "calculate_insurance_needs", age |-> age,
                    income |-> i * 600000, dependents |-> dependents,
                    liabilities |-> l * 500000, existing_cover |-> c * 10000000]
        /\ result' = calculate_insurance_needs(age, i * 600000, dependents,
                                               l * 500000, c * 10000000)
    /\ UNCHANGED <<session_state, runs>>

CallOpportunityCost ==
    /\ call = Idle
    /\ \E amount \in OpportunityAmounts, years \in 0..MaxOpportunityYears,
          alternative_return \in OpportunityRates :
        /\ call' = [op |-> "calculate_opportunity_cost", amount |-> amount,
                    years |-> years, alternative_return |-> alternative_return]
        /\ result' = calculate_opportunity_cost(amount, years, alternative_return)
    /\ UNCHANGED <<session_state, runs>>

CallFinancialHealth ==
    /\ call = Idle
    /\ \E i \in 0..MaxHealthIncomeSteps, e \in 0..MaxHealthSteps,
          s \in 0..MaxHealthSteps, v \in 0..MaxHealthSteps,
          l \in 0..MaxHealthSteps, c \in 0..MaxHealthSteps, age \in HealthAges :
        /\ call' = [op |-> "calculate_financial_health", income |-> i * 100,
                    expenses |-> e * 30, savings |-> s * 10,
                    investments |-> v * 500, liabilities |-> l * 25,
                    insurance_cover |-> c * 500, age |-> age]
        /\ result' = calculate_financial_health(i * 100, e * 30, s * 10, v * 500,
                                                l * 25, c * 500, age)
    /\ UNCHANGED <<session_state, runs>>

CallSpendingForecast ==
    /\ call = Idle
    /\ \E optimized_budget \in ForecastBudgets, months \in 1..MaxMonths :
        /\ call' = [op |-> "generate_spending_forecast",
                    optimized_budget |-> optimized_budget, months |-> months]
        /\ result' = generate_spending_forecast(optimized_budget, months)
    /\ UNCHANGED <<session_state, runs>>

\* One rerun of the page with the spending form on it.
SpendingFormRerun ==
    /\ call = Idle
    /\ \E w \in FormInputs(session_state.spending_data) :
        /\ call' = [op |-> "spending_input_form",
                    spending_data |-> session_state.spending_data, widgets |-> w]
        /\ result' = spending_input_form(session_state.spending_data, w)
        /\ session_state' =
              [session_state EXCEPT !.spending_data = result'.spending_data]
    /\ UNCHANGED runs

\* show_optimization with "Run Optimization" clicked: the assignment to
\* st.session_state.optimized_budget happens only if the call returns.
RunOptimization ==
    /\ call = Idle
    /\ runs < MaxRuns
    /\ runs' = runs + 1
    /\ call' = [op |-> "optimize_budget", income |-> DefaultIncome,
                spending_data |-> session_state.spending_data,
                min_savings |-> DefaultMinSavings,
                risk_appetite |-> DefaultRiskAppetite]
    /\ result' \in optimize_budget(DefaultIncome, session_state.spending_data,
                                   DefaultMinSavings, DefaultRiskAppetite)
    /\ session_state' =
          [session_state EXCEPT !.optimized_budget =
              IF result'.kind = "returned" THEN result'.value ELSE @]

Return ==
    /\ call # Idle
    /\ call' = Idle
    /\ result' = NoResult
    /\ UNCHANGED <<session_state, runs>>

Next ==
    \/ CallIncomeTax
    \/ CallGst
    \/ CallOptimizeBudget
    \/ CallOptimizeBudgetOnDefaults
    \/ CallOptimizeBudgetWithFlags
    \/ CallInvestmentGrowth
    \/ CallInsuranceNeeds
    \/ CallOpportunityCost
    \/ CallFinancialHealth
    \/ CallSpendingForecast
    \/ SpendingFormRerun
    \/ RunOptimization
    \/ Return

Spec == Init /\ [][Next]_vars

\* The calls of one function at a time: the functions share no state, so a
\* property of one function is checked over that function's calls alone.
NextTax == CallIncomeTax \/ Return

SpecTax == Init /\ [][NextTax]_vars

NextGst == CallGst \/ Return

SpecGst == Init /\ [][NextGst]_vars

NextBudget == CallOptimizeBudget \/ CallOptimizeBudgetOnDefaults \/ Return

SpecBudget == Init /\ [][NextBudget]_vars

NextFlags == CallOptimizeBudgetWithFlags \/ Return

SpecFlags == Init /\ [][NextFlags]_vars

NextForecast == CallSpendingForecast \/ Return

SpecForecast == Init /\ [][NextForecast]_vars

NextSession == SpendingFormRerun \/ RunOptimization \/ Return

SpecSession == Init /\ [][NextSession]_vars

NextGrowth == CallInvestmentGrowth \/ Return

SpecGrowth == Init /\ [][NextGrowth]_vars

NextInsurance == CallInsuranceNeeds \/ Return

SpecInsurance == Init /\ [][NextInsurance]_vars

NextOpportunity == CallOpportunityCost \/ Return

SpecOpportunity == Init /\ [][NextOpportunity]_vars

NextHealth == CallFinancialHealth \/ Return

SpecHealth == Init /\ [][NextHealth]_vars

----------------------------------------------------------------------------
(* Properties of optimize_budget.                                          *)

IsBudgetCall == call.op = "optimize_budget"

\* C1: whenever optimize_budget returns an allocation, the sum of the
\* allocated amounts over all categories is at most income - min_savings.
C1_TotalWithinIncomeLessSavings ==
    (IsBudgetCall /\ result.kind = "returned")
        => Total(result.value) <= 10 * (call.income - call.min_savings)

\* C2: when no allocation satisfies all of the optimizer's constraints,
\* optimize_budget does not return an allocation mapping of amounts.
C2_InfeasibleIsNotReturnedAsAllocation ==
    (IsBudgetCall
       /\ FeasibleSet(call.income, call.spending_data, call.min_savings,
                      call.risk_appetite) = {})
        => result.kind # "returned"

\* C3: in every allocation returned by optimize_budget, each category whose
\* lower-cased name is 'rent' or 'utilities' receives at least 90% of its
\* current amount.
C3_EssentialNamesKeepNinetyPercent ==
    (IsBudgetCall /\ result.kind = "returned")
        => \A cat \in DOMAIN call.spending_data :
              EssentialName(cat)
                 => /\ cat \in DOMAIN result.value
                    /\ result.value[cat] >= 9 * call.spending_data[cat].amount

\* C4: optimize_budget returns exactly one entry per category of the input
\* spending map, keyed by the category's name as it appears in the input,
\* and each returned amount is non-negative.
C4_OneEntryPerCategoryUnderItsOwnName ==
    (IsBudgetCall /\ result.kind = "returned")
        => /\ DOMAIN result.value = DOMAIN call.spending_data
           /\ \A n \in DOMAIN result.value : result.value[n] >= 0

----------------------------------------------------------------------------
(* Properties of calculate_income_tax.                                     *)

IsTaxCall == call.op = "calculate_income_tax"

SlabAmounts == [i \in DOMAIN result.slabs |-> result.slabs[i].amount]

SlabTaxes == [i \in DOMAIN result.slabs |-> result.slabs[i].tax]

\* C5: the sum of the 'amount' fields of the returned slab entries equals
\* taxable_income = max(income - deductions, 0) exactly, in either regime.
C5_SlabAmountsSumToTaxableIncome ==
    IsTaxCall
        => /\ result.taxable_income = Max(call.income - call.deductions, 0)
           /\ IntSum(SlabAmounts) = result.taxable_income

\* A call that reaches all seven slabs of the new regime after deductions.
C5_Witness ==
    /\ IsTaxCall
    /\ call.deductions > 0
    /\ Len(result.slabs) = 7

\* C6: total_tax = base_tax x 1.04, cess is 4% of base_tax and base_tax is
\* the sum of the per-slab tax values.
C6_TotalIsBasePlusFourPercentCess ==
    IsTaxCall
        => /\ result.base_tax = RatSum(SlabTaxes)
           /\ RatMul(result.cess, R(100)) = RatMul(result.base_tax, R(4))
           /\ RatMul(result.total_tax, R(100)) = RatMul(result.base_tax, R(104))

\* A call whose base tax is positive and drawn from several slabs.
C6_Witness ==
    /\ IsTaxCall
    /\ result.base_tax.num > 0
    /\ Len(result.slabs) >= 3

\* C7: with income = 0 the call raises nothing and returns total_tax = 0,
\* effective_rate = 0 and an empty slab breakdown, whatever the regime and
\* the deductions.
C7_ZeroIncomeGivesZeroTax ==
    (IsTaxCall /\ call.income = 0)
        => /\ result.kind = "returned"
           /\ result.total_tax = R(0)
           /\ result.effective_rate = R(0)
           /\ result.slabs = <<>>

\* A call with zero income and positive deductions.
C7_Witness ==
    /\ IsTaxCall
    /\ call.income = 0
    /\ call.deductions > 0

\* C8 as stated: effective_rate is the ratio total_tax / gross income itself
\* when income > 0, and 0 otherwise.
C8_EffectiveRateIsTheRatio ==
    IsTaxCall
        => IF call.income > 0
           THEN RatMul(result.effective_rate, R(call.income)) = result.total_tax
           ELSE result.effective_rate = R(0)

\* C8 as amended: effective_rate is 100 x total_tax / gross income, the
\* percentage of gross (not taxable) income, when income > 0, and 0 otherwise.
C8_EffectiveRateIsPercentOfGross ==
    IsTaxCall
        => IF call.income > 0
           THEN RatMul(result.effective_rate, R(call.income))
                   = RatMul(result.total_tax, R(100))
           ELSE result.effective_rate = R(0)

\* A call with deductions that leave tax to pay: gross and taxable differ.
C8_Witness ==
    /\ IsTaxCall
    /\ call.deductions > 0
    /\ result.taxable_income < call.income
    /\ result.total_tax.num > 0

----------------------------------------------------------------------------
(* Properties of calculate_gst.                                            *)

IsGstCall == call.op = "calculate_gst"

\* C9 as stated: for the four known categories gst_amount is base_price
\* times the reported rate and total is base_price + gst_amount.
C9_GstAmountIsBaseTimesReportedRate ==
    (IsGstCall /\ call.category \in GstCategories)
        => /\ result.gst_amount = RatMul(R(result.base_price), result.gst_rate)
           /\ result.total = RatAdd(R(result.base_price), result.gst_amount)

\* C9 as amended: the reported rate is a percentage, so gst_amount is
\* base_price x gst_rate / 100; total is base_price + gst_amount.
C9_GstAmountIsBaseTimesRatePercent ==
    (IsGstCall /\ call.category \in GstCategories)
        => /\ result.base_price = call.amount
           /\ RatMul(result.gst_amount, R(100))
                 = RatMul(R(result.base_price), result.gst_rate)
           /\ result.total = RatAdd(R(result.base_price), result.gst_amount)

\* A purchase of 50000 in the highest-rated category.
C9_Witness ==
    /\ IsGstCall
    /\ call.category = "Special"
    /\ call.amount = 50000
    /\ result.gst_amount = R(14000)

\* C10: a category that is none of the four known names raises nothing and
\* gets the rate, gst_amount and total of 'Standard' for the same amount.
C10_UnknownCategoryIsTaxedAsStandard ==
    (IsGstCall /\ call.category \notin GstCategories)
        => LET standard == calculate_gst(call.amount, "Standard")
           IN  /\ result.kind = "returned"
               /\ result.gst_rate = standard.gst_rate
               /\ result.gst_amount = standard.gst_amount
               /\ result.total = standard.total

\* A purchase in a category the rate table does not know.
C10_Witness ==
    /\ IsGstCall
    /\ call.category = "Other"
    /\ call.amount > 0
    /\ result.gst_rate = R(12)

----------------------------------------------------------------------------
(* Properties of calculate_investment_growth.                              *)

GrowthCalled == call.op = "calculate_investment_growth"

\* C11: in lumpsum mode with principal > 0 and years >= 1 the yearly
\* sequence has exactly 'years' entries, entry y has
\* nominal = principal * (1 + rate)^y and real = nominal / (1 + inflation)^y,
\* and the final nominal and real are those of the last entry.
C11_LumpsumYearlyIsCompoundGrowth ==
    (GrowthCalled /\ call.mode = "lumpsum" /\ call.principal > 0 /\ call.years >= 1)
    => /\ result.kind = "returned"
       /\ Len(result.yearly) = call.years
       /\ \A y \in 1..call.years :
            /\ result.yearly[y].year = y
            /\ result.yearly[y].nominal =
                 RatMul(R(call.principal), RatPow(RatAdd(R(1), call.rate), y))
            /\ result.yearly[y].real =
                 RatDiv(result.yearly[y].nominal,
                        RatPow(RatAdd(R(1), call.inflation), y))
       /\ result.nominal = result.yearly[call.years].nominal
       /\ result.real = result.yearly[call.years].real

\* 100000 at 12% for one year under 6% inflation: 112000 and 112000 / 1.06.
C11_Witness ==
    /\ GrowthCalled /\ call.mode = "lumpsum"
    /\ call.principal = 100000 /\ call.years = 1
    /\ call.rate = Rat(12, 100) /\ call.inflation = Rat(6, 100)
    /\ result.nominal = R(112000)
    /\ result.real = Rat(112000 * 100, 106)

\* The running total after n monthly steps from 0, each adding the
\* contribution and then multiplying by the monthly factor; t = [step, total]
\* after t.step of them.
RECURSIVE SipSteps(_, _, _, _)
SipSteps(t, principal, rate, n) ==
    IF t.step = n THEN t.total
    ELSE SipSteps([step  |-> t.step + 1,
                   total |-> SurdTimesRoot(SurdAdd(t.total, R(principal)),
                                           RatAdd(R(1), rate))],
                  principal, rate, n)

\* C12: in SIP mode the nominal recorded for year y is the result of
\* 12 * y sequential steps from 0, each adding the monthly contribution and
\* then multiplying by (1 + rate)^(1/12); the total is carried across years.
C12_SipNominalIsTwelveStepsPerYearFromZero ==
    (GrowthCalled /\ call.mode = "sip" /\ result.kind = "returned")
    => \A y \in 1..call.years :
         result.yearly[y].nominal =
            SipSteps([step |-> 0, total |-> SurdZero], call.principal, call.rate,
                     MonthsPerYear * y)

\* A SIP of several years, whose second year builds on the first.
C12_Witness ==
    /\ GrowthCalled /\ call.mode = "sip" /\ result.kind = "returned"
    /\ call.years >= 2 /\ call.principal > 0
    /\ result.yearly[2].nominal # result.yearly[1].nominal
    /\ result.yearly[2].year = 2

\* C13: with years = 0 and principal > 0, either mode, no error is raised,
\* cagr is 0, the yearly sequence is empty and the final nominal and real
\* both equal principal.
C13_ZeroYearsReturnsPrincipal ==
    (GrowthCalled /\ call.years = 0 /\ call.principal > 0)
    => /\ result.kind = "returned"
       /\ result.cagr = R(0)
       /\ result.yearly = <<>>
       /\ result.nominal = R(call.principal)
       /\ result.real = R(call.principal)

C13_Witness ==
    /\ GrowthCalled /\ call.years = 0 /\ call.principal = 1000
    /\ call.mode = "sip" /\ result.kind = "returned"
    /\ result.nominal = R(1000)

----------------------------------------------------------------------------
(* Properties of calculate_insurance_needs.                                *)

InsuranceCalled == call.op = "calculate_insurance_needs"

\* C14: for non-negative inputs the components are 10 x income,
\* 1.2 x liabilities and 500000 x dependents, total_needs is their sum, and
\* additional_needed is total_needs - existing_cover floored at zero.
C14_InsuranceNeedsAreSumAndFlooredTopUp ==
    InsuranceCalled
    => LET c   == result.components
           gap == RatSub(result.total_needs, R(call.existing_cover))
       IN  /\ result.kind = "returned"
           /\ c.income_replacement = R(10 * call.income)
           /\ c.liabilities_cover = Rat(12 * call.liabilities, 10)
           /\ c.education_cover = R(500000 * call.dependents)
           /\ result.total_needs =
                RatSum(<<c.income_replacement, c.liabilities_cover, c.education_cover>>)
           /\ gap.num >= 0 => result.additional_needed = gap
           /\ gap.num < 0 => result.additional_needed = R(0)

\* A positive need already more than covered: the floor applies.
C14_Witness ==
    /\ InsuranceCalled
    /\ call.income > 0 /\ call.liabilities > 0 /\ call.dependents > 0
    /\ RatSub(result.total_needs, R(call.existing_cover)).num < 0
    /\ result.additional_needed = R(0)

----------------------------------------------------------------------------
(* Properties of calculate_financial_health.                               *)

HealthCalled == call.op = "calculate_financial_health"

ComponentNames == {"savings", "investments", "debt", "insurance", "expenses"}

\* The weight of each component in the total score.
Weight(name) ==
    CASE name = "savings"     -> 25
      [] name = "investments" -> 25
      [] name = "debt"        -> 20
      [] name = "insurance"   -> 15
      [] name = "expenses"    -> 15

InRange(x, lo, hi) == RatLE(R(lo), x) /\ RatLE(x, R(hi))

\* C15: for non-negative inputs and every age, total_score lies in
\* [0, 100] and equals the sum of the five component scores, and each
\* component score lies in [0, w] for its weight w.
C15_TotalIsSumOfBoundedComponentScores ==
    HealthCalled
    => LET c == result.components
       IN  /\ result.kind = "returned"
           /\ InRange(result.total_score, 0, 100)
           /\ result.total_score =
                RatSum(<<c.savings.score, c.investments.score, c.debt.score,
                         c.insurance.score, c.expenses.score>>)
           /\ \A name \in ComponentNames : InRange(c[name].score, 0, Weight(name))

\* The caps are active: savings, investments and insurance above their
\* targets, debt above half the income; expenses at 90% of income lose
\* three quarters of their 15 points.
C15_Witness ==
    /\ HealthCalled /\ call.income > 0
    /\ call.savings * 10 > call.income * 2
    /\ call.investments > 2 * call.income * Max(call.age - 25, 5)
    /\ call.liabilities * 2 > call.income
    /\ call.insurance_cover > 10 * call.income
    /\ call.expenses * 10 = call.income * 9
    /\ result.total_score = Rat(275, 4)

AllRatiosIdeal ==
    \A name \in ComponentNames :
        result.components[name].ratio = result.components[name].ideal

\* C16: when every one of the five ratios returned equals the ideal declared
\* for it in the same result, total_score is 100.
C16_IdealRatiosScoreHundred ==
    (HealthCalled /\ AllRatiosIdeal) => result.total_score = R(100)

\* C17: with income = 0 no error is raised, every ratio is 0 and
\* total_score is 0.
C17_ZeroIncomeScoresZero ==
    (HealthCalled /\ call.income = 0)
    => /\ result.kind = "returned"
       /\ \A name \in ComponentNames : result.components[name].ratio = R(0)
       /\ result.total_score = R(0)

----------------------------------------------------------------------------
(* Properties of calculate_opportunity_cost.                               *)

OpportunityCalled == call.op = "calculate_opportunity_cost"

\* C18: for years >= 1 the yearly sequence has exactly 'years' entries,
\* entry y is amount * ((1 + rate)^y - 1), computed from the base amount
\* alone, and 'total' is the last entry.
C18_YearlyCostIsRecomputedFromAmount ==
    (OpportunityCalled /\ call.years >= 1)
    => /\ result.kind = "returned"
       /\ Len(result.yearly) = call.years
       /\ \A y \in 1..call.years :
            /\ result.yearly[y].year = y
            /\ result.yearly[y].opportunity_cost =
                 RatSub(RatMul(R(call.amount),
                               RatPow(RatAdd(R(1), call.alternative_return), y)),
                        R(call.amount))
       /\ result.total = result.yearly[call.years].opportunity_cost

\* 1000 at 12%: 120 after one year and 254.4, not 120 + 254.4, after two.
C18_Witness ==
    /\ OpportunityCalled
    /\ call.amount = 1000 /\ call.alternative_return = Rat(12, 100)
    /\ call.years = 2
    /\ result.yearly[1].opportunity_cost = R(120)
    /\ result.total = Rat(2544, 10)

----------------------------------------------------------------------------
(* Properties of optimize_budget: the minimum-spending row.                *)

\* C20: in every allocation returned by optimize_budget the allocated
\* amounts sum to at least 40% of income, the default session state
\* included.
C20_TotalAtLeastFortyPercentOfIncome ==
    (IsBudgetCall /\ result.kind = "returned")
        => Total(result.value) >= 4 * call.income

----------------------------------------------------------------------------
(* Properties of optimize_budget: the band around the current amount.      *)

\* C21: in every allocation returned by optimize_budget, each category's
\* amount lies within [0.7, 1.3] times its current amount when
\* risk_appetite > 0.5 and within [0.9, 1.1] times it otherwise
\* (risk_appetite = 0.5 included).
C21_EveryAmountWithinItsBand ==
    (IsBudgetCall /\ result.kind = "returned")
        => \A cat \in DOMAIN call.spending_data :
              LET amount == call.spending_data[cat].amount
                  value  == result.value[VarName(cat)]
              IN  IF call.risk_appetite > 5
                  THEN 7 * amount <= value /\ value <= 13 * amount
                  ELSE 9 * amount <= value /\ value <= 11 * amount

----------------------------------------------------------------------------
(* Properties of calculate_income_tax: the slab breakdown.                 *)

\* The lower limit of slab i of a table: the limit of the slab before it.
LowerLimit(slabs, i) == IF i = 1 THEN 0 ELSE slabs[i - 1][1]

\* C22: the slab breakdown is exactly the prefix of the regime's table made
\* of the slabs whose lower limit is strictly below taxable_income: it
\* starts at 0, each 'from' is the previous 'to', the last (from, to]
\* contains taxable_income, and no slab that taxable_income does not reach
\* is recorded.
C22_BreakdownIsThePrefixOfReachedSlabs ==
    IsTaxCall
    => LET table   == IF call.regime = "new" THEN NewRegimeSlabs ELSE OldRegimeSlabs
           taxable == result.taxable_income
           reached == {i \in DOMAIN table : LowerLimit(table, i) < taxable}
           n       == Len(result.slabs)
       IN  /\ n = Cardinality(reached)
           /\ reached = 1..n
           /\ \A i \in 1..n :
                /\ result.slabs[i].to = table[i][1]
                /\ result.slabs[i].rate = RatMul(table[i][2], R(100))
                /\ result.slabs[i].from = IF i = 1 THEN 0 ELSE result.slabs[i - 1].to
           /\ n > 0 => /\ result.slabs[n].from < taxable
                       /\ taxable <= result.slabs[n].to

\* A taxable income exactly on a slab limit: the slab above it is not
\* recorded.
C22_Witness ==
    /\ IsTaxCall /\ call.regime = "new"
    /\ result.taxable_income = 500000
    /\ Len(result.slabs) = 2
    /\ result.slabs[2].from = 250000 /\ result.slabs[2].to = 500000

----------------------------------------------------------------------------
(* Properties of calculate_financial_health: the debt score.               *)

RatLT(a, b) == RatSub(b, a).num > 0

HealthLiabilities == {l * 25 : l \in 0..MaxHealthSteps}

\* The debt component of the same call made with other liabilities.
DebtWith(liabilities) ==
    calculate_financial_health(call.income, call.expenses, call.savings,
                               call.investments, liabilities,
                               call.insurance_cover, call.age).components.debt

\* C23 as stated: with income > 0 and the other inputs fixed, a strictly
\* higher debt ratio gives a strictly lower debt score, and the debt score
\* is never below 0.
C23_HigherDebtRatioStrictlyLowersScore ==
    (HealthCalled /\ call.income > 0)
    => /\ RatLE(R(0), result.components.debt.score)
       /\ \A liabilities \in HealthLiabilities :
            RatLT(result.components.debt.ratio, DebtWith(liabilities).ratio)
               => RatLT(DebtWith(liabilities).score, result.components.debt.score)

\* C23: with income > 0 and the other inputs fixed, a strictly higher debt
\* ratio never gives a higher debt score, gives a strictly lower one
\* when the lower of the two ratios is below 1, and gives the same score, 0,
\* when both ratios are 1 or more; the debt score is never below 0.
C23_HigherDebtRatioLowersScoreUntilZero ==
    (HealthCalled /\ call.income > 0)
    => /\ RatLE(R(0), result.components.debt.score)
       /\ \A liabilities \in HealthLiabilities :
            RatLT(result.components.debt.ratio, DebtWith(liabilities).ratio)
               => IF RatLT(result.components.debt.ratio, R(1))
                  THEN RatLT(DebtWith(liabilities).score,
                             result.components.debt.score)
                  ELSE /\ DebtWith(liabilities).score = R(0)
                       /\ result.components.debt.score = R(0)

\* Liabilities of half the income, ratio 1 and score 0, with higher
\* liabilities in reach that score 0 as well.
C23_Witness ==
    /\ HealthCalled /\ call.income > 0
    /\ result.components.debt.ratio = R(1)
    /\ result.components.debt.score = R(0)
    /\ \E liabilities \in HealthLiabilities :
          /\ RatLT(R(1), DebtWith(liabilities).ratio)
          /\ DebtWith(liabilities).score = R(0)

----------------------------------------------------------------------------
(* Properties of calculate_insurance_needs: the age argument.              *)

\* Ages the life-insurance form accepts, its two ends included.
OtherAges == InsuranceAges \cup {18, 70}

\* C30: the result of calculate_insurance_needs does not depend on age: the
\* same call made with any other age returns the identical result.
C30_ResultIsTheSameAtEveryAge ==
    InsuranceCalled
    => \A age \in OtherAges :
          calculate_insurance_needs(age, call.income, call.dependents,
                                    call.liabilities, call.existing_cover) = result

\* A call with an income to replace, matched by the call at another age.
C30_Witness ==
    /\ InsuranceCalled /\ call.age = 40 /\ call.income > 0
    /\ result.components.income_replacement = R(10 * call.income)
    /\ calculate_insurance_needs(25, call.income, call.dependents,
                                 call.liabilities, call.existing_cover) = result

----------------------------------------------------------------------------
(* Properties of optimize_budget: the 'essential' flag.                    *)

\* The same spending map with other 'essential' values.
Reflagged(spending_data, flags) ==
    [cat \in DOMAIN spending_data |->
        [spending_data[cat] EXCEPT !.essential = flags[cat]]]

\* C29: the constraints and the objective optimize_budget builds do not
\* depend on any 'essential' flag: a map that differs only in those flags
\* has the same feasible set, the same objective and the same possible
\* results, and the only 90% floors are those of the names 'rent' and
\* 'utilities', so a flagged category of another name has none.
C29_EssentialFlagChangesNothing ==
    IsBudgetCall
    => LET sd   == call.spending_data
           feas == FeasibleSet(call.income, sd, call.min_savings, call.risk_appetite)
       IN  /\ \A flags \in [DOMAIN sd -> BOOLEAN] :
                LET other == Reflagged(sd, flags)
                IN  /\ FeasibleSet(call.income, other, call.min_savings,
                                   call.risk_appetite) = feas
                    /\ \A x \in feas :
                          Objective(x, other, call.risk_appetite)
                             = Objective(x, sd, call.risk_appetite)
                    /\ result \in optimize_budget(call.income, other,
                                                 call.min_savings, call.risk_appetite)
           /\ feas = {x \in Bounded(sd, call.risk_appetite) :
                        /\ Total(x) <= 10 * (call.income - call.min_savings)
                        /\ Total(x) >= 4 * call.income
                        /\ \A cat \in DOMAIN sd :
                              Lower(cat) \in {Lower(Rent), Lower(Utilities)}
                                 => x[cat] >= 9 * sd[cat].amount}

\* Food is flagged essential and the optimum still takes it below 90% of
\* its current amount.
C29_Witness ==
    /\ IsBudgetCall /\ result.kind = "returned"
    /\ Food \in DOMAIN call.spending_data
    /\ call.spending_data[Food].essential
    /\ FeasibleSet(call.income, call.spending_data, call.min_savings,
                   call.risk_appetite) # {}
    /\ result.value[Food] < 9 * call.spending_data[Food].amount

----------------------------------------------------------------------------
(* Properties of generate_spending_forecast.                               *)

ForecastCalled == call.op = "generate_spending_forecast"

\* C24: for every months >= 1 generate_spending_forecast raises no error
\* and returns exactly one breakdown per projected month, in the order
\* 1..months.
C24_OneRowPerMonthWithoutError ==
    (ForecastCalled /\ call.months >= 1)
    => /\ result.kind = "returned"
       /\ Len(result.rows) = call.months
       /\ \A m \in 1..call.months :
             /\ result.rows[m].Month = MonthLabel(m)
             /\ DOMAIN result.rows[m].values = DOMAIN call.optimized_budget

Within(value, lo, hi) ==
    /\ RatLE(lo, value.low) /\ RatLE(value.low, value.high) /\ RatLE(value.high, hi)

\* C25: in every forecast row each category's value lies within
\* [0.95, 1.15] times its optimized amount, except that 'Shopping' in the
\* 12th month lies within 1.5 times that range; no other month and no
\* other category receives the 1.5.
C25_ValuesWithinNoiseAndSeasonalRange ==
    (ForecastCalled /\ result.kind = "returned")
    => \A m \in DOMAIN result.rows : \A category \in DOMAIN call.optimized_budget :
          LET base  == call.optimized_budget[category]
              value == result.rows[m].values[category]
          IN  IF m = 12 /\ category = <<"S", "h", "o", "p", "p", "i", "n", "g">>
              THEN Within(value, Rat(15 * 95 * base, 1000), Rat(15 * 115 * base, 1000))
              ELSE Within(value, Rat(95 * base, 100), Rat(115 * base, 100))

\* A twelve-month forecast of 'Shopping', 'shopping' and 'Rent': in the
\* twelfth row only 'Shopping' is raised.
C25_Witness ==
    /\ ForecastCalled /\ result.kind = "returned" /\ call.months = 12
    /\ DOMAIN call.optimized_budget = {Shopping, Rent, Lower(Shopping)}
    /\ \A category \in DOMAIN call.optimized_budget :
          call.optimized_budget[category] = 40
    /\ result.rows[12].values[Shopping].low = R(57)
    /\ result.rows[12].values[Rent].high = R(46)
    /\ result.rows[12].values[Lower(Shopping)].high = R(46)
    /\ result.rows[11].values[Shopping].high = R(46)

----------------------------------------------------------------------------
(* Properties of the session: the spending form and "Run Optimization".    *)

\* C26: in every state reached by form edits and "Run Optimization"
\* clicks, an optimized_budget that is not None has an entry for every
\* category now in spending_data, so that the results view's
\* optimized_budget[cat] cannot fail.
C26_OptimizedBudgetCoversEveryCategory ==
    session_state.optimized_budget # None
        => \A cat \in DOMAIN session_state.spending_data :
              cat \in DOMAIN session_state.optimized_budget

FormRerun == call.op = "spending_input_form"

\* C27: after a rerun of the form no error was raised, every category whose
\* delete button was clicked is absent from spending_data, under the name
\* it had and under the name it was given, and every other category is
\* present under the name its row holds.
C27_ClickedRowsGoneOthersKept ==
    FormRerun
    => LET before  == call.spending_data
           w       == call.widgets
           after   == session_state.spending_data
           clicked == {cat \in DOMAIN before : w.del[cat]}
       IN  /\ result.kind = "returned"
           /\ \A cat \in clicked :
                 cat \notin DOMAIN after /\ w.new_name[cat] \notin DOMAIN after
           /\ \A cat \in DOMAIN before \ clicked : w.new_name[cat] \in DOMAIN after

\* The least income the sidebar's input accepts.
MinSidebarIncome == 1000

\* C28: for every map the form can produce (amounts >= 0, happiness in
\* 1..10) and every income the sidebar accepts (>= 1000), optimize_budget
\* raises no division-by-zero error.
C28_FormInputsNeverDivideByZero ==
    (/\ IsBudgetCall
     /\ call.income >= MinSidebarIncome
     /\ \A cat \in DOMAIN call.spending_data :
           /\ call.spending_data[cat].amount >= 0
           /\ call.spending_data[cat].happiness \in 1..10)
    => result.kind # "raised"

====
